---- MODULE Spec2Model ----
(***************************************************************************)
(* Model of src/Python/repo_code_analyzer.py: the repository scanner       *)
(* (analyze_repo) and the COCOMO-style estimator (estimate_shiny_cost).    *)
(*                                                                         *)
(* Numbers.  The program computes in binary floating point; the model      *)
(* computes in exact integer arithmetic:                                   *)
(*   - parameters with two decimals (reuse_factor, rely, ...) are held in  *)
(*     hundredths, exponents in thousandths;                               *)
(*   - effort and schedule are held in hundredths (of person-months, of    *)
(*     months); math.pow is computed as exp2(y * log2(x)) on fixed-point   *)
(*     tables with linear interpolation (within 1% of math.pow on the      *)
(*     modelled range, and monotone like it);                              *)
(*   - quotients (people, natural schedule, compression ratio) are exact   *)
(*     rationals <<numerator, denominator>>;                               *)
(*   - money is an exact quotient of a multi-limb natural number, so that  *)
(*     round() is applied to the exact value.                              *)
(***************************************************************************)
EXTENDS Integers, Sequences, FiniteSets, TLC

VARIABLES
    args,      \* estimate_shiny_cost: the arguments of the call in progress
    pc,        \* estimate_shiny_cost: "called", "returned", "raised"
    frame,     \* estimate_shiny_cost: local variables at the return statement
    result,    \* estimate_shiny_cost: the returned dict (NoResult before/without)
    error,     \* estimate_shiny_cost: the ValueError message ("" when none)
    prev,      \* the result the caller got from its previous call, or NoPrev
    walk,      \* analyze_repo: the files os.walk yields, in order
    pos,       \* analyze_repo: index in walk of the next file to visit
    results,   \* analyze_repo: the per-file records appended so far
    folded,    \* analyze_repo: how many records the aggregation has folded
    lang_summary, \* analyze_repo: <<language, stats>> in first-encounter order
    sorted_langs, \* analyze_repo: lang_summary sorted by Code, descending
    totals,    \* analyze_repo: the grand total
    scan_pc,   \* analyze_repo: "idle", "walk", "aggregate", "summarize",
               \*   "returned" (the tuple), "none" (None), "raised"
    argv,      \* main: the parsed command line (NoArgv outside main)
    main_pc,   \* main: "idle", "parsed", "analyze", "estimate", "done", "crashed"
    written    \* main: the output files written, by format

estVars == <<args, pc, frame, result, error, prev>>
scanVars == <<walk, pos, results, folded, lang_summary, sorted_langs, totals, scan_pc>>

mainVars == <<argv, main_pc, written>>

vars == <<args, pc, frame, result, error, prev,
          walk, pos, results, folded, lang_summary, sorted_langs, totals, scan_pc,
          argv, main_pc, written>>

-----------------------------------------------------------------------------
(* Bounds of the model.                                                    *)

\* code_lines ranges over 0, LinesStep, ..., MaxSizeIdx * LinesStep (and -1)
MaxSizeIdx == 14
\* maintenance_years ranges over -1 .. MaxYears
MaxYears == 3
\* a scanned directory holds at most MaxFiles files
MaxFiles == 3
\* every text over Alphabet with lines of at most MaxLineLen characters is scanned
MaxLineLen == 2

LinesStep == 25 * 100

-----------------------------------------------------------------------------
(* Exact arithmetic used by the model.                                     *)

Abs(x) == IF x < 0 THEN -x ELSE x

RECURSIVE GCD(_, _)
GCD(a, b) == IF b = 0 THEN a ELSE GCD(b, a % b)

\* Rationals <<n, d>> with d > 0, in lowest terms.
Rat(n, d) ==
    LET g == GCD(Abs(n), d)
    IN  IF n = 0 THEN <<0, 1>> ELSE <<n \div g, d \div g>>

RatInt(n) == <<n, 1>>
RatLE(x, y) == x[1] * y[2] <= y[1] * x[2]
RatLT(x, y) == x[1] * y[2] < y[1] * x[2]
RatPos(x) == x[1] > 0
\* x / y for y > 0
RatDiv(x, y) == Rat(x[1] * y[2], x[2] * y[1])
\* Python's min(x, y): the first argument unless the second is smaller
RatMin(x, y) == IF RatLT(y, x) THEN y ELSE x

\* round-half-to-even of n / d (d > 0), as Python's round()
RoundHalfEven(n, d) ==
    LET q == n \div d
        r == n % d
    IN  IF 2 * r < d THEN q
        ELSE IF 2 * r > d THEN q + 1
        ELSE IF q % 2 = 0 THEN q ELSE q + 1

\* round(x, 2) of a rational, in hundredths
RatRound2(x) == RoundHalfEven(x[1] * 100, x[2])

\* Natural numbers of any size: little-endian sequences of limbs base 1000,
\* without leading zero limbs (zero is << >>).
Limb == 10 ^ 3

RECURSIVE BigFromNat(_)
BigFromNat(n) == IF n = 0 THEN << >> ELSE <<n % Limb>> \o BigFromNat(n \div Limb)

RECURSIVE BigToNat(_)
BigToNat(x) == IF x = << >> THEN 0 ELSE Head(x) + Limb * BigToNat(Tail(x))

RECURSIVE BigTrim(_)
BigTrim(x) ==
    IF x = << >> THEN << >>
    ELSE IF x[Len(x)] = 0 THEN BigTrim(SubSeq(x, 1, Len(x) - 1))
    ELSE x

RECURSIVE BigMulCarry(_, _, _)
BigMulCarry(x, k, c) ==
    IF x = << >> THEN BigFromNat(c)
    ELSE LET v == Head(x) * k + c
         IN  <<v % Limb>> \o BigMulCarry(Tail(x), k, v \div Limb)

\* x * k for a natural k below 2 * 10^6
BigMulSmall(x, k) == BigTrim(BigMulCarry(x, k, 0))

\* <<quotient limbs, remainder>> of x / n, most significant limb first
RECURSIVE BigDivRec(_, _)
BigDivRec(x, n) ==
    IF x = << >> THEN << << >>, 0 >>
    ELSE LET hi  == BigDivRec(Tail(x), n)
             cur == hi[2] * Limb + Head(x)
         IN  << <<cur \div n>> \o hi[1], cur % n >>

\* <<x div n, x mod n>> for 0 < n below 2 * 10^6
BigDivSmall(x, n) ==
    LET qr == BigDivRec(x, n) IN <<BigTrim(qr[1]), qr[2]>>

RECURSIVE BigCmpRec(_, _, _)
BigCmpRec(x, y, i) ==
    IF i = 0 THEN 0
    ELSE IF x[i] < y[i] THEN -1
    ELSE IF x[i] > y[i] THEN 1
    ELSE BigCmpRec(x, y, i - 1)

\* -1, 0, 1 as x <, =, > y
BigCmp(x, y) ==
    IF Len(x) < Len(y) THEN -1
    ELSE IF Len(x) > Len(y) THEN 1
    ELSE BigCmpRec(x, y, Len(x))

RECURSIVE BigMulAll(_, _)
BigMulAll(x, ks) ==
    IF ks = << >> THEN x ELSE BigMulAll(BigMulSmall(x, Head(ks)), Tail(ks))

\* <<floor(x / product of ds), whether the division is exact>>
RECURSIVE BigDivAll(_, _)
BigDivAll(x, ds) ==
    IF ds = << >> THEN <<x, TRUE>>
    ELSE LET qr   == BigDivSmall(x, Head(ds))
             rest == BigDivAll(qr[1], Tail(ds))
         IN  <<rest[1], rest[2] /\ qr[2] = 0>>

\* Money: the exact value num / (product of dens), num a big natural.
Money(num, dens) == [num |-> num, dens |-> dens]

\* m * k / d
MoneyScale(m, k, d) == Money(BigMulSmall(m.num, k), Append(m.dens, d))

\* Python's round(m): half to even, as an integer
MoneyRound(m) ==
    LET qe   == BigDivAll(BigMulSmall(m.num, 2), m.dens)
        q2   == BigToNat(qe[1])
        half == q2 \div 2
    IN  IF q2 % 2 = 0 THEN half
        ELSE IF qe[2] /\ half % 2 = 0 THEN half
        ELSE half + 1

\* k is an integer nearest to m: |k * dens - num| * 2 <= dens
MoneyNearest(k, m) ==
    LET den  == BigMulAll(BigFromNat(1), m.dens)
        twoN == BigMulSmall(m.num, 2)
    IN  /\ BigCmp(BigMulSmall(den, 2 * k + 1), twoN) >= 0
        /\ \/ k = 0
           \/ BigCmp(BigMulSmall(den, 2 * k - 1), twoN) <= 0

-----------------------------------------------------------------------------
(* math.pow on fixed point: pow(x, y) = exp2(y * log2(x)).                 *)

LogScale == 10 ^ 4
Segments == 2 ^ 4

\* round(log2(1 + i/16) * 10^4), i = 0..16
Log2Table ==
    <<0, 875, 1699, 2479, 3219, 3923, 4594, 5236, 5850,
      6439, 7004, 7549, 8074, 8580, 9069, 9542, 10000>>

\* round(2^(i/16) * 10^4), i = 0..16
Exp2Table ==
    <<10000, 10443, 10905, 11388, 11892, 12419, 12968, 13543, 14142,
      14768, 15422, 16105, 16818, 17563, 18340, 19152, 20000>>

RECURSIVE FloorLog2(_)
FloorLog2(n) == IF n < 2 THEN 0 ELSE 1 + FloorLog2(n \div 2)

\* log2(n) * LogScale for an integer n >= 1
Log2Fx(n) ==
    LET k == FloorLog2(n)
        p == 2 ^ k
        t == (n - p) * Segments
        i == t \div p
        r == t % p
    IN  k * LogScale + Log2Table[i + 1]
          + ((Log2Table[i + 2] - Log2Table[i + 1]) * r) \div p

\* 2^(v / LogScale), in hundredths
Exp2Fx(v) ==
    LET k == v \div LogScale
        f == v % LogScale
        t == f * Segments
        i == t \div LogScale
        r == t % LogScale
        m == Exp2Table[i + 1]
               + ((Exp2Table[i + 2] - Exp2Table[i + 1]) * r) \div LogScale
    IN  IF k >= 0 THEN (m * 2 ^ k) \div 100
        ELSE m \div (2 ^ (-k) * 100)

\* pow(n / scale, y / 1000) in hundredths, for n >= 0 and y > 0
pow(n, scale, y) ==
    IF n = 0 THEN 0
    ELSE Exp2Fx(((Log2Fx(n) - Log2Fx(scale)) * y) \div 1000)

-----------------------------------------------------------------------------
(* The scanner's tables.  A line is the sequence of its characters, its    *)
(* line terminator included; a file's text is the sequence of its lines.   *)

LANG_MAP(ext) ==
    CASE ext = ".r" -> "R"
      [] ext \in {".js", ".jsx"} -> "JavaScript"
      [] ext \in {".ts", ".tsx"} -> "TypeScript"
      [] ext = ".css" -> "CSS"
      [] ext \in {".scss", ".sass"} -> "Sass"
      [] ext \in {".html", ".htm"} -> "HTML"
      [] ext \in {".md", ".rmd"} -> "Markdown"
      [] ext = ".qmd" -> "Quarto"
      [] ext \in {".yml", ".yaml"} -> "YAML"
      [] ext = ".json" -> "JSON"
      [] ext = ".xml" -> "XML"
      [] ext = ".svg" -> "SVG"
      [] ext = ".py" -> "Python"
      [] ext = ".tex" -> "TeX"
      [] ext = ".sh" -> "Shell"
      [] ext = ".txt" -> "Plain Text"
      [] ext = ".license" -> "License"
      [] ext = ".c" -> "C"
      [] ext = ".cpp" -> "C++"
      [] ext = ".h" -> "C Header"
      [] ext = ".java" -> "Java"
      [] ext = ".sql" -> "SQL"
      [] OTHER -> "Other"

\* the literal that follows ^\s* in each comment pattern of a language
COMMENT_PATTERNS(language) ==
    CASE language \in {"R", "Python", "Shell"} -> {<<"#">>}
      [] language \in {"JavaScript", "TypeScript", "Sass", "C", "C++", "Java"} ->
            {<<"/", "/">>, <<"/", "*">>, <<"*">>}
      [] language = "CSS" -> {<<"/", "*">>, <<"*">>}
      [] language = "HTML" -> {<<"<", "!", "-", "-">>}
      [] language = "SQL" -> {<<"-", "-">>, <<"/", "*">>, <<"*">>}
      [] OTHER -> {}

\* the directories whose '/name/' fragment is in EXCLUDE_PATTERNS
EXCLUDE_PATTERNS ==
    {".git", ".Rproj.user", "node_modules", ".venv", "venv", "__pycache__",
     "packrat", "renv"}

\* the file names whose '/name' fragment is in EXCLUDE_PATTERNS
ExcludedNames == {".DS_Store", ".Rhistory", ".RData"}

BINARY_EXTENSIONS ==
    {".png", ".jpg", ".jpeg", ".gif", ".bmp", ".ico", ".tiff", ".webp",
     ".woff", ".woff2", ".ttf", ".otf", ".eot",
     ".rds", ".rdata", ".rda", ".rdb", ".rdx",
     ".pyc", ".so", ".dylib", ".dll", ".o", ".class", ".jar",
     ".zip", ".tar", ".gz", ".bz2", ".xz", ".7z", ".rar",
     ".pdf", ".doc", ".docx", ".xls", ".xlsx", ".ppt", ".pptx",
     ".mp3", ".mp4", ".wav", ".avi", ".mov", ".ogg",
     ".sqlite", ".db", ".exe", ".bin", ".dat", ".lock"}

\* str.lower() on the extensions that occur in the model
Lower(ext) ==
    CASE ext = ".R" -> ".r"
      [] ext = ".HTML" -> ".html"
      [] ext = ".PNG" -> ".png"
      [] OTHER -> ext

\* the file names in the model that re.search(r'LICENSE|LICENCE', f, re.I) finds
LicenseNames == {"LICENSE", "LICENCE", "license", "UNLICENSE"}

-----------------------------------------------------------------------------
(* Regular expressions of the scanner, on sequences of characters.         *)

\* \s
IsSpace(c) == c \in {" ", "\t", "\n", "\r", "\f"}

\* lit occurs in L at position p
HasLiteralAt(L, lit, p) ==
    /\ p + Len(lit) - 1 <= Len(L)
    /\ \A j \in 1..Len(lit) : L[p + j - 1] = lit[j]

\* IsBlank when the pattern has lost its '$'
IsBlankUnanchored(L) == \E k \in 0..Len(L) : \A i \in 1..k : IsSpace(L[i])

\* re.match(r'^\s*$', L)
IsBlank(L) == \A i \in 1..Len(L) : IsSpace(L[i])

\* re.compile('^\s*' + lit).search(L)
MatchesCommentPattern(L, lit) ==
    \E k \in 0..Len(L) :
        /\ \A i \in 1..k : IsSpace(L[i])
        /\ HasLiteralAt(L, lit, k + 1)

\* any(prog.search(L) for prog in compiled)
IsComment(L, patterns) == \E lit \in patterns : MatchesCommentPattern(L, lit)

\* the alternatives of a complexity pattern: a keyword followed by
\* "paren" (\s*\(), "space" (\s+) or nothing
Alt(kw, tail) == [kw |-> kw, tail |-> tail]

KwFunction == <<"f", "u", "n", "c", "t", "i", "o", "n">>
KwFor == <<"f", "o", "r">>
KwWhile == <<"w", "h", "i", "l", "e">>
KwIf == <<"i", "f">>
KwClass == <<"c", "l", "a", "s", "s">>
KwDef == <<"d", "e", "f">>
KwArrow == <<"=", ">">>

COMPLEXITY_PATTERNS(language) ==
    CASE language = "R" ->
            {Alt(KwFunction, "paren"), Alt(KwFor, "paren"),
             Alt(KwWhile, "paren"), Alt(KwIf, "paren")}
      [] language \in {"JavaScript", "TypeScript"} ->
            {Alt(KwFunction, "space"), Alt(KwArrow, "none"), Alt(KwFor, "paren"),
             Alt(KwWhile, "paren"), Alt(KwIf, "paren"), Alt(KwClass, "space")}
      [] language = "Python" ->
            {Alt(KwDef, "space"), Alt(KwClass, "space"), Alt(KwFor, "space"),
             Alt(KwWhile, "space"), Alt(KwIf, "space")}
      [] OTHER -> {}

MatchesAltAt(L, alt, p) ==
    /\ HasLiteralAt(L, alt.kw, p)
    /\ LET q == p + Len(alt.kw)
       IN  CASE alt.tail = "none" -> TRUE
             [] alt.tail = "space" -> q <= Len(L) /\ IsSpace(L[q])
             [] alt.tail = "paren" ->
                   \E j \in q..Len(L) :
                       /\ L[j] = "("
                       /\ \A i \in q..(j - 1) : IsSpace(L[i])

\* re.search(pattern, L)
SearchComplexity(L, alts) ==
    \E alt \in alts : \E p \in 1..Len(L) : MatchesAltAt(L, alt, p)

-----------------------------------------------------------------------------
(* analyze_repo: one file.                                                 *)

\* A file of the tree: its directory under the scanned path, its name split
\* as os.path.splitext does, its text, and the filesystem operations that
\* fail on it ("probe": the binary probe's open/read, "read": open/readlines,
\* "getsize": os.path.getsize).
File(dir, stem, ext, text, faults) ==
    [dir |-> dir, stem |-> stem, ext |-> ext, text |-> text, faults |-> faults]

\* is_excluded(full)
is_excluded(f) == f.dir \in EXCLUDE_PATTERNS \/ f.stem \in ExcludedNames

\* is_binary_file(full)
is_binary_file(f) ==
    IF Lower(f.ext) \in BINARY_EXTENSIONS THEN TRUE
    ELSE IF "probe" \in f.faults THEN FALSE
    ELSE IF f.text = << >> THEN FALSE
    ELSE \E i \in 1..Len(f.text) : \E j \in 1..Len(f.text[i]) : f.text[i][j] = "NUL"

\* language = LANG_MAP.get(ext, 'Other'), with the license rule
Language(f) ==
    LET ext == Lower(f.ext)
    IN  IF ext = "" /\ f.stem \in LicenseNames THEN LANG_MAP(".license")
        ELSE LANG_MAP(ext)

RECURSIVE SumLen(_)
SumLen(lines) == IF lines = << >> THEN 0 ELSE Len(Head(lines)) + SumLen(Tail(lines))

\* the record appended to results for a file that was read
FileRecord(f) ==
    LET language      == Language(f)
        lines         == f.text
        total_lines   == Len(lines)
        blank_lines   == Cardinality({i \in 1..Len(lines) : IsBlank(lines[i])})
        patterns      == COMMENT_PATTERNS(language)
        comment_lines == IF patterns # {}
                         THEN Cardinality({i \in 1..Len(lines) :
                                              IsComment(lines[i], patterns)})
                         ELSE 0
        code_lines    == total_lines - blank_lines - comment_lines
        alts          == COMPLEXITY_PATTERNS(language)
        complexity_count ==
            Cardinality({i \in 1..Len(lines) : SearchComplexity(lines[i], alts)})
        file_size     == SumLen(lines)
    IN  [Language |-> language, File |-> <<f.dir, f.stem, f.ext>>,
         Lines |-> total_lines, Blanks |-> blank_lines, Comments |-> comment_lines,
         Code |-> code_lines, Complexity |-> complexity_count, Bytes |-> file_size]

-----------------------------------------------------------------------------
(* analyze_repo: aggregation.                                              *)

ZeroStats ==
    [Files |-> 0, Lines |-> 0, Blanks |-> 0, Comments |-> 0, Code |-> 0,
     Complexity |-> 0, Bytes |-> 0]

\* Accumulate that leaves Bytes out
AccumulateNoBytes(stats, r) ==
    [Files |-> stats.Files + 1, Lines |-> stats.Lines + r.Lines,
     Blanks |-> stats.Blanks + r.Blanks, Comments |-> stats.Comments + r.Comments,
     Code |-> stats.Code + r.Code, Complexity |-> stats.Complexity + r.Complexity,
     Bytes |-> stats.Bytes]

\* lang_summary[L][k] += r[k] for every field, Files += 1
Accumulate(stats, r) ==
    [Files |-> stats.Files + 1, Lines |-> stats.Lines + r.Lines,
     Blanks |-> stats.Blanks + r.Blanks, Comments |-> stats.Comments + r.Comments,
     Code |-> stats.Code + r.Code, Complexity |-> stats.Complexity + r.Complexity,
     Bytes |-> stats.Bytes + r.Bytes]

\* one iteration of 'for r in results': the dict keeps first-insertion order
FoldRecord(summary, r) ==
    IF \E i \in 1..Len(summary) : summary[i][1] = r.Language
    THEN [i \in 1..Len(summary) |->
            IF summary[i][1] = r.Language
            THEN <<summary[i][1], Accumulate(summary[i][2], r)>>
            ELSE summary[i]]
    ELSE Append(summary, <<r.Language, Accumulate(ZeroStats, r)>>)

\* InsertByCode that puts kv before the entries of equal Code
RECURSIVE InsertByCodeBeforeTies(_, _)
InsertByCodeBeforeTies(sorted, kv) ==
    IF sorted = << >> THEN <<kv>>
    ELSE IF Head(sorted)[2].Code > kv[2].Code
         THEN <<Head(sorted)>> \o InsertByCodeBeforeTies(Tail(sorted), kv)
         ELSE <<kv>> \o sorted

\* insert kv after every entry whose Code is not smaller (a stable sort)
RECURSIVE InsertByCode(_, _)
InsertByCode(sorted, kv) ==
    IF sorted = << >> THEN <<kv>>
    ELSE IF Head(sorted)[2].Code >= kv[2].Code
         THEN <<Head(sorted)>> \o InsertByCode(Tail(sorted), kv)
         ELSE <<kv>> \o sorted

\* sorted(lang_summary.items(), key=lambda kv: -kv[1]['Code'])
RECURSIVE SortByCode(_)
SortByCode(summary) ==
    IF summary = << >> THEN << >>
    ELSE InsertByCode(SortByCode(SubSeq(summary, 1, Len(summary) - 1)),
                      summary[Len(summary)])

\* totals[k] += stats[k] over the sorted languages
RECURSIVE Totals(_)
Totals(langs) ==
    IF langs = << >> THEN ZeroStats
    ELSE LET t == Totals(Tail(langs))
             h == Head(langs)[2]
         IN  [Files |-> h.Files + t.Files, Lines |-> h.Lines + t.Lines,
              Blanks |-> h.Blanks + t.Blanks, Comments |-> h.Comments + t.Comments,
              Code |-> h.Code + t.Code, Complexity |-> h.Complexity + t.Complexity,
              Bytes |-> h.Bytes + t.Bytes]

-----------------------------------------------------------------------------
(* analyze_repo: the scan.                                                 *)

\* the body of 'for f in files' for the file at pos
VisitFile ==
    /\ scan_pc = "walk"
    /\ pos <= Len(walk)
    /\ LET f == walk[pos]
       IN  IF is_excluded(f) \/ is_binary_file(f) \/ "read" \in f.faults
           THEN \* continue
                /\ pos' = pos + 1
                /\ UNCHANGED <<results, scan_pc>>
           ELSE IF "getsize" \in f.faults
           THEN \* os.path.getsize raises outside the try: analyze_repo raises
                /\ scan_pc' = "raised"
                /\ UNCHANGED <<results, pos>>
           ELSE /\ results' = Append(results, FileRecord(f))
                /\ pos' = pos + 1
                /\ UNCHANGED scan_pc
    /\ UNCHANGED <<walk, folded, lang_summary, sorted_langs, totals>>
    /\ UNCHANGED estVars
    /\ UNCHANGED mainVars

\* the walk is over: 'No files found to analyze.' or on to the aggregation
FinishWalk ==
    /\ scan_pc = "walk"
    /\ pos > Len(walk)
    /\ scan_pc' = IF results = << >> THEN "none" ELSE "aggregate"
    /\ UNCHANGED <<walk, pos, results, folded, lang_summary, sorted_langs, totals>>
    /\ UNCHANGED estVars
    /\ UNCHANGED mainVars

\* one iteration of the aggregation loop
Aggregate ==
    /\ scan_pc = "aggregate"
    /\ folded < Len(results)
    /\ lang_summary' = FoldRecord(lang_summary, results[folded + 1])
    /\ folded' = folded + 1
    /\ scan_pc' = IF folded + 1 = Len(results) THEN "summarize" ELSE "aggregate"
    /\ UNCHANGED <<walk, pos, results, sorted_langs, totals>>
    /\ UNCHANGED estVars
    /\ UNCHANGED mainVars

\* sort, total, print the report and return (lang_summary, totals)
Summarize ==
    /\ scan_pc = "summarize"
    /\ sorted_langs' = SortByCode(lang_summary)
    /\ totals' = Totals(sorted_langs')
    /\ scan_pc' = "returned"
    /\ UNCHANGED <<walk, pos, results, folded, lang_summary>>
    /\ UNCHANGED estVars
    /\ UNCHANGED mainVars

analyze_repo == VisitFile \/ FinishWalk \/ Aggregate \/ Summarize

-----------------------------------------------------------------------------
(* estimate_shiny_cost: parameters.                                        *)

NoMix == << >>

\* the keyword defaults of estimate_shiny_cost (code_lines has none)
Defaults ==
    [code_lines |-> 3 * LinesStep, complexity |-> "medium", team_experience |-> 4,
     reuse_factor |-> 100, tool_support |-> 100, language_mix |-> NoMix,
     avg_wage |-> 105000, max_team_size |-> 5, max_schedule_months |-> 24,
     rely |-> 100, cplx |-> 100, ruse |-> 100, pcon |-> 100, apex |-> 100,
     maintenance_rate |-> 20, maintenance_years |-> 0]

SizeGrid == {i * LinesStep : i \in 0..MaxSizeIdx}

\* values tried for one parameter at a time, the others at their defaults:
\* both ends of each declared range and the first value outside each end
OneAtATime ==
    [code_lines          |-> {-1, 0, LinesStep},
     complexity          |-> {"low", "medium", "high", "extreme"},
     team_experience     |-> 0..6,
     reuse_factor        |-> {69, 70, 130, 131, 200},
     tool_support        |-> {79, 80, 120, 121},
     rely                |-> {81, 82, 126, 127},
     cplx                |-> {72, 73, 174, 175},
     ruse                |-> {94, 95, 124, 125},
     pcon                |-> {80, 81, 129, 130},
     apex                |-> {80, 81, 122, 123},
     avg_wage            |-> {0, 12000},
     max_team_size       |-> {-1, 0, 1},
     max_schedule_months |-> {-1, 0, 1},
     maintenance_rate    |-> {-1, 0, 100, 101},
     maintenance_years   |-> -1..MaxYears,
     language_mix        |-> {<< <<"R", 4000>>, <<"SQL", 2600>>, <<"Go", 500>> >>,
                              << <<"Markdown", 0>> >>}]

DriverInputs ==
    UNION {{[Defaults EXCEPT ![f] = v] : v \in OneAtATime[f]} : f \in DOMAIN OneAtATime}

\* the realistic-constraints layer: size, exponent, experience and both caps
ConstraintInputs ==
    {[Defaults EXCEPT !.code_lines = n, !.complexity = cx, !.team_experience = te,
                      !.max_team_size = mts, !.max_schedule_months = msm] :
        n \in SizeGrid, cx \in {"low", "medium", "high"}, te \in {1, 4},
        mts \in {-1, 0, 2, 5, 6, 10}, msm \in {-1, 0, 3, 4, 6, 12, 24}}

\* the monetary layer: wage, maintenance rate and maintenance horizon
MoneyInputs ==
    {[Defaults EXCEPT !.code_lines = n, !.max_team_size = mts, !.max_schedule_months = msm,
                      !.avg_wage = w, !.maintenance_rate = r, !.maintenance_years = y] :
        n \in SizeGrid, mts \in {5, 10}, msm \in {3, 24},
        w \in {0, 12000, 100001, 105000}, r \in {0, 20, 100}, y \in 0..MaxYears}

Inputs == DriverInputs \cup ConstraintInputs \cup MoneyInputs

-----------------------------------------------------------------------------
(* estimate_shiny_cost: input validation.                                  *)

\* ValidationError with the upper ends of team_experience and reuse_factor unchecked
ValidationErrorLowerOnly(a) ==
    IF a.code_lines < 0 THEN "code_lines must be a non-negative number"
    ELSE IF a.complexity \notin {"low", "medium", "high"}
        THEN "complexity must be 'low', 'medium', or 'high'"
    ELSE IF ~(1 <= a.team_experience) THEN "team_experience must be between 1 and 5"
    ELSE IF ~(70 <= a.reuse_factor) THEN "reuse_factor must be between 0.7 and 1.3"
    ELSE IF ~(80 <= a.tool_support /\ a.tool_support <= 120)
        THEN "tool_support must be between 0.8 and 1.2"
    ELSE IF ~(82 <= a.rely /\ a.rely <= 126) THEN "rely must be between 0.82 and 1.26"
    ELSE IF ~(73 <= a.cplx /\ a.cplx <= 174) THEN "cplx must be between 0.73 and 1.74"
    ELSE IF ~(95 <= a.ruse /\ a.ruse <= 124) THEN "ruse must be between 0.95 and 1.24"
    ELSE IF ~(81 <= a.pcon /\ a.pcon <= 129) THEN "pcon must be between 0.81 and 1.29"
    ELSE IF ~(81 <= a.apex /\ a.apex <= 122) THEN "apex must be between 0.81 and 1.22"
    ELSE IF ~(0 <= a.maintenance_rate /\ a.maintenance_rate <= 100)
        THEN "maintenance_rate must be between 0 and 1"
    ELSE IF a.maintenance_years < 0 THEN "maintenance_years must be non-negative"
    ELSE ""

\* the message of the ValueError raised, "" when every check passes
ValidationError(a) ==
    IF a.code_lines < 0 THEN "code_lines must be a non-negative number"
    ELSE IF a.complexity \notin {"low", "medium", "high"}
        THEN "complexity must be 'low', 'medium', or 'high'"
    ELSE IF ~(1 <= a.team_experience /\ a.team_experience <= 5)
        THEN "team_experience must be between 1 and 5"
    ELSE IF ~(70 <= a.reuse_factor /\ a.reuse_factor <= 130)
        THEN "reuse_factor must be between 0.7 and 1.3"
    ELSE IF ~(80 <= a.tool_support /\ a.tool_support <= 120)
        THEN "tool_support must be between 0.8 and 1.2"
    ELSE IF ~(82 <= a.rely /\ a.rely <= 126) THEN "rely must be between 0.82 and 1.26"
    ELSE IF ~(73 <= a.cplx /\ a.cplx <= 174) THEN "cplx must be between 0.73 and 1.74"
    ELSE IF ~(95 <= a.ruse /\ a.ruse <= 124) THEN "ruse must be between 0.95 and 1.24"
    ELSE IF ~(81 <= a.pcon /\ a.pcon <= 129) THEN "pcon must be between 0.81 and 1.29"
    ELSE IF ~(81 <= a.apex /\ a.apex <= 122) THEN "apex must be between 0.81 and 1.22"
    ELSE IF ~(0 <= a.maintenance_rate /\ a.maintenance_rate <= 100)
        THEN "maintenance_rate must be between 0 and 1"
    ELSE IF a.maintenance_years < 0 THEN "maintenance_years must be non-negative"
    ELSE ""

-----------------------------------------------------------------------------
(* estimate_shiny_cost: the cost model.                                    *)

\* A = 2.50, C = 3.50, EM_modern = 0.85 (hundredths)
A == 250
C == 350
EM_modern == 85
max_realistic_people == 8

\* B, in thousandths
ExponentB(complexity) ==
    CASE complexity = "low" -> 1020
      [] complexity = "medium" -> 1100
      [] complexity = "high" -> 1180
      [] OTHER -> 1100

\* lang_productivity.get(lang, 1.0), in tenths
lang_productivity(lang) ==
    CASE lang = "R" -> 10 [] lang = "Python" -> 11 [] lang = "SQL" -> 13
      [] lang = "JavaScript" -> 9 [] lang = "CSS" -> 12 [] lang = "HTML" -> 13
      [] lang \in {"Markdown", "Quarto", "YAML", "JSON"} -> 15
      [] OTHER -> 10

\* weighted: the sum of lines / prod over the mix, in tenths of a line
RECURSIVE Weighted(_)
Weighted(mix) ==
    IF mix = << >> THEN 0
    ELSE (Head(mix)[2] * 100) \div lang_productivity(Head(mix)[1]) + Weighted(Tail(mix))

\* KLOC as <<n, scale>>: n / scale thousand lines
KLOC(a) ==
    IF a.language_mix # << >> THEN <<Weighted(a.language_mix), 10000>>
    ELSE <<a.code_lines, 1000>>

\* EM_experience = 1.2 - 0.05 * team_experience, in hundredths
EM_experience(team_experience) == 120 - 5 * team_experience

RECURSIVE Product(_, _)
Product(em, factors) ==
    IF factors = << >> THEN em
    ELSE Product((em * Head(factors)) \div 100, Tail(factors))

\* EM_total, in thousandths
EM_total(a) ==
    Product(EM_experience(a.team_experience) * 10,
            <<a.reuse_factor, a.tool_support, EM_modern,
              a.rely, a.cplx, a.ruse, a.pcon, a.apex>>)

\* base_effort = A * pow(KLOC, B), in hundredths of a person-month
BaseEffort(kloc, b) == (A * pow(kloc[1], kloc[2], b)) \div 100

\* effort = base_effort * EM_total, in hundredths of a person-month
Effort(base_effort, em_total) == (base_effort * em_total) \div 1000

\* D = 0.28 + 0.2 * (B - 1.01), in thousandths
ExponentD(b) == 280 + (2 * (b - 1010)) \div 10

\* schedule = C * pow(effort, D), in hundredths of a month
Schedule(effort, d) == (C * pow(effort, 100, d)) \div 100

\* people = effort / schedule if schedule > 0 else effort
People(effort, schedule) ==
    IF schedule > 0 THEN Rat(effort, schedule) ELSE Rat(effort, 100)

\* unconstrained_people = min(original_people, max_team_size)
UnconstrainedPeople(original_people, max_team_size) ==
    RatMin(original_people, RatInt(max_team_size))

\* FinalPeople without the absolute ceiling
FinalPeopleNoCeiling(unconstrained_people) == unconstrained_people

\* final_people = min(unconstrained_people, max_realistic_people)
FinalPeople(unconstrained_people) ==
    RatMin(unconstrained_people, RatInt(max_realistic_people))

\* NaturalSchedule whose fallback is 0 instead of the effort
NaturalScheduleZeroFallback(original_effort, final_people) ==
    IF RatPos(final_people) THEN RatDiv(Rat(original_effort, 100), final_people)
    ELSE RatInt(0)

\* natural_schedule = original_effort / final_people if final_people > 0
\*                    else original_effort
NaturalSchedule(original_effort, final_people) ==
    IF RatPos(final_people) THEN RatDiv(Rat(original_effort, 100), final_people)
    ELSE Rat(original_effort, 100)

\* final_schedule = min(natural_schedule, max_schedule_months)
FinalSchedule(natural_schedule, max_schedule_months) ==
    RatMin(natural_schedule, RatInt(max_schedule_months))

\* compression_ratio = natural_schedule / final_schedule if final_schedule > 0
\*                     else natural_schedule
CompressionRatio(natural_schedule, final_schedule) ==
    IF RatPos(final_schedule) THEN RatDiv(natural_schedule, final_schedule)
    ELSE natural_schedule

\* PremiumTier with each tier exclusive at its lower bound
PremiumTierExclusive(compression_ratio) ==
    IF RatLT(RatInt(4), compression_ratio) THEN 20
    ELSE IF RatLT(RatInt(3), compression_ratio) THEN 17
    ELSE IF RatLT(RatInt(2), compression_ratio) THEN 14
    ELSE 12

\* PremiumTier with the multipliers assigned in the reverse order
PremiumTierReversed(compression_ratio) ==
    IF RatLE(RatInt(4), compression_ratio) THEN 12
    ELSE IF RatLE(RatInt(3), compression_ratio) THEN 14
    ELSE IF RatLE(RatInt(2), compression_ratio) THEN 17
    ELSE 20

\* the premium tier of a compression ratio, in tenths
PremiumTier(compression_ratio) ==
    IF RatLE(RatInt(4), compression_ratio) THEN 20
    ELSE IF RatLE(RatInt(3), compression_ratio) THEN 17
    ELSE IF RatLE(RatInt(2), compression_ratio) THEN 14
    ELSE 12

\* CoordinationPremium that starts above a team of 6
CoordinationPremiumAboveSix(final_people) ==
    IF RatLT(RatInt(6), final_people) THEN 11 ELSE 10

\* coordination_premium, in tenths
CoordinationPremium(final_people) ==
    IF RatLE(RatInt(6), final_people) THEN 11 ELSE 10

\* original_effort * monthly_wage * multiplier, with monthly_wage = avg_wage / 12.0
RealisticCost(original_effort, avg_wage, multiplier) ==
    Money(BigMulAll(BigFromNat(original_effort), <<avg_wage, multiplier>>),
          <<100, 12, 10>>)

\* round(realistic_cost / final_schedule) if final_schedule > 0 else 0
AverageMonthlyCost(realistic_cost, final_schedule) ==
    IF RatPos(final_schedule)
    THEN MoneyRound(Money(BigMulSmall(realistic_cost.num, final_schedule[2]),
                          Append(realistic_cost.dens, final_schedule[1])))
    ELSE 0

\* ConfidenceInterval with a 25% band
ConfidenceIntervalQuarter(realistic_cost) ==
    [low  |-> MoneyRound(MoneyScale(realistic_cost, 75, 100)),
     high |-> MoneyRound(MoneyScale(realistic_cost, 125, 100))]

\* confidence_interval
ConfidenceInterval(realistic_cost) ==
    [low  |-> MoneyRound(MoneyScale(realistic_cost, 70, 100)),
     high |-> MoneyRound(MoneyScale(realistic_cost, 130, 100))]

\* annual_maintenance * (1.05 ** yr)
RECURSIVE Inflate(_, _)
Inflate(annual_maintenance, yr) ==
    IF yr = 0 THEN annual_maintenance
    ELSE Inflate(MoneyScale(annual_maintenance, 105, 100), yr - 1)

\* YearlyCosts with the year index starting at 1
YearlyCostsFromOne(annual_maintenance, maintenance_years) ==
    [i \in 1..maintenance_years |-> MoneyRound(Inflate(annual_maintenance, i))]

\* yearly_costs = [round(annual_maintenance * (1.05 ** yr)) for yr in range(years)]
YearlyCosts(annual_maintenance, maintenance_years) ==
    [i \in 1..maintenance_years |-> MoneyRound(Inflate(annual_maintenance, i - 1))]

RECURSIVE Sum(_)
Sum(s) == IF s = << >> THEN 0 ELSE Head(s) + Sum(Tail(s))

NoMaintenance == [none |-> TRUE]

\* maintenance: None unless maintenance_years > 0
Maintenance(realistic_cost, maintenance_rate, maintenance_years) ==
    IF maintenance_years > 0
    THEN LET annual_maintenance == MoneyScale(realistic_cost, maintenance_rate, 100)
             yearly_costs       == YearlyCosts(annual_maintenance, maintenance_years)
             total_maintenance  == Sum(yearly_costs)
         IN  [annual_maintenance |-> MoneyRound(annual_maintenance),
              maintenance_years  |-> maintenance_years,
              maintenance_rate   |-> maintenance_rate,
              yearly_costs       |-> yearly_costs,
              total_maintenance  |-> total_maintenance,
              tco                |-> MoneyRound(realistic_cost) + total_maintenance]
    ELSE NoMaintenance

\* the local variables of estimate_shiny_cost when it reaches its return
Locals(a) ==
    LET b                    == ExponentB(a.complexity)
        kloc                 == KLOC(a)
        em_total             == EM_total(a)
        base_effort          == BaseEffort(kloc, b)
        effort               == Effort(base_effort, em_total)
        d                    == ExponentD(b)
        schedule             == Schedule(effort, d)
        people               == People(effort, schedule)
        unconstrained_people == UnconstrainedPeople(people, a.max_team_size)
        final_people         == FinalPeople(unconstrained_people)
        natural_schedule     == NaturalSchedule(effort, final_people)
        final_schedule       == FinalSchedule(natural_schedule, a.max_schedule_months)
        compressed           == RatLT(RatInt(a.max_schedule_months), natural_schedule)
        compression_ratio    == CompressionRatio(natural_schedule, final_schedule)
        premium_multiplier   == IF compressed THEN PremiumTier(compression_ratio) ELSE 10
        coordination_premium == IF compressed THEN 10 ELSE CoordinationPremium(final_people)
        realistic_cost       ==
            IF compressed THEN RealisticCost(effort, a.avg_wage, premium_multiplier)
            ELSE RealisticCost(effort, a.avg_wage, coordination_premium)
    IN  [B |-> b, KLOC |-> kloc, EM_total |-> em_total, base_effort |-> base_effort,
         effort |-> effort, D |-> d, schedule |-> schedule, people |-> people,
         cost |-> effort * 120,
         unconstrained_people |-> unconstrained_people,
         final_people |-> final_people,
         natural_schedule |-> natural_schedule,
         final_schedule |-> final_schedule,
         compressed |-> compressed,
         compression_ratio |-> compression_ratio,
         premium_multiplier |-> premium_multiplier,
         coordination_premium |-> coordination_premium,
         realistic_cost |-> realistic_cost,
         average_monthly_cost |-> AverageMonthlyCost(realistic_cost, final_schedule),
         confidence_interval |-> ConfidenceInterval(realistic_cost),
         maintenance |-> Maintenance(realistic_cost, a.maintenance_rate,
                                     a.maintenance_years)]

\* the returned dict; values rounded to 2 places are in hundredths,
\* multipliers in tenths
Result(a, f) ==
    [code_lines            |-> a.code_lines,
     effort_person_months  |-> f.effort,
     schedule_months       |-> f.schedule,
     people_required       |-> RatRound2(f.people),
     estimated_cost_usd    |-> f.cost,
     realistic_cost_usd    |-> MoneyRound(f.realistic_cost),
     final_people          |-> RatRound2(f.final_people),
     final_schedule_months |-> RatRound2(f.final_schedule),
     premium_multiplier    |-> f.premium_multiplier,
     coordination_premium  |-> f.coordination_premium,
     average_monthly_cost  |-> f.average_monthly_cost,
     confidence_interval   |-> f.confidence_interval,
     maintenance           |-> f.maintenance,
     original_effort       |-> f.effort,
     original_people       |-> RatRound2(f.people),
     original_schedule     |-> f.schedule,
     natural_schedule      |-> RatRound2(f.natural_schedule),
     max_realistic_people  |-> max_realistic_people,
     max_realistic_schedule |-> a.max_schedule_months,
     params                |-> [g \in DOMAIN a \ {"code_lines", "language_mix"} |-> a[g]]]

NoFrame == [none |-> TRUE]
NoResult == [none |-> TRUE]
NoPrev == [none |-> TRUE]

\* estimate_shiny_cost raises ValueError: nothing is returned
Raise ==
    /\ pc = "called"
    /\ ValidationError(args) # ""
    /\ pc' = "raised"
    /\ error' = ValidationError(args)
    /\ UNCHANGED <<args, frame, result, prev>>
    /\ UNCHANGED scanVars
    /\ UNCHANGED mainVars

\* estimate_shiny_cost runs to its return statement
Return ==
    /\ pc = "called"
    /\ ValidationError(args) = ""
    /\ frame' = Locals(args)
    /\ result' = Result(args, frame')
    /\ pc' = "returned"
    /\ UNCHANGED <<args, error, prev>>
    /\ UNCHANGED scanVars
    /\ UNCHANGED mainVars

estimate_shiny_cost == Raise \/ Return

\* the caller estimates again, the same parameters with more code lines
EstimateLarger ==
    /\ pc = "returned"
    /\ args.code_lines + LinesStep <= MaxSizeIdx * LinesStep
    /\ prev' = result
    /\ args' = [args EXCEPT !.code_lines = @ + LinesStep]
    /\ pc' = "called"
    /\ frame' = NoFrame
    /\ result' = NoResult
    /\ UNCHANGED error
    /\ UNCHANGED scanVars
    /\ UNCHANGED mainVars

NoArgv == [none |-> TRUE]
NoOutputs == [csv |-> << >>, html |-> << >>, txt |-> << >>]

\* main is not running
MainIdle ==
    /\ argv = NoArgv
    /\ main_pc = "idle"
    /\ written = NoOutputs

\* no scan is in progress
ScanIdle ==
    /\ walk = << >>
    /\ pos = 1
    /\ results = << >>
    /\ folded = 0
    /\ lang_summary = << >>
    /\ sorted_langs = << >>
    /\ totals = ZeroStats
    /\ scan_pc = "idle"

\* no estimate is in progress
EstIdle ==
    /\ args = Defaults
    /\ pc = "idle"
    /\ frame = NoFrame
    /\ result = NoResult
    /\ error = ""
    /\ prev = NoPrev

EstInit ==
    /\ args \in Inputs
    /\ pc = "called"
    /\ frame = NoFrame
    /\ result = NoResult
    /\ error = ""
    /\ prev = NoPrev
    /\ ScanIdle
    /\ MainIdle

EstNext == Raise \/ Return \/ EstimateLarger

\* calls of estimate_shiny_cost
SpecEstimate == EstInit /\ [][EstNext]_vars

-----------------------------------------------------------------------------
(* The scanned trees.                                                      *)

Ln(chars) == chars \o <<"\n">>

SampleFiles ==
    {File("src", "app", ".R",
          <<Ln(<<"#", " ", "c">>), Ln(<< >>), Ln(<<"x">>),
            Ln(<<"i", "f", " ", "(", "x", ")">>), Ln(<<" ", "\t">>)>>, {}),
     File("src", "util", ".r", <<Ln(<<"x">>), <<"#">>>>, {}),
     File("src", "ui", ".js",
          <<Ln(<<"/", "/", "c">>), Ln(<<"/", "*", "c">>), Ln(<<" ", "*", "c">>),
            Ln(<<"x", "=", ">", "x">>), <<"x">>>>, {}),
     File("src", "run", ".py",
          <<Ln(<<"d", "e", "f", " ", "f">>), Ln(<<" ", "#", "c">>), Ln(<<"x">>),
            Ln(<<"x">>), Ln(<<"x">>)>>, {}),
     File("src", "page", ".HTML", <<Ln(<<"<", "!", "-", "-">>), Ln(<<"x">>)>>, {}),
     File("src", "LICENSE", "", <<Ln(<<"x">>)>>, {}),
     File("src", "empty", ".txt", << >>, {}),
     File("src", "locked", ".R", <<Ln(<<"x">>)>>, {"probe", "read"}),
     File("src", "flaky", ".R", <<Ln(<<"x">>)>>, {"read"}),
     File("src", "busy", ".R", <<Ln(<<"x">>)>>, {"probe"}),
     File("src", "gone", ".R", <<Ln(<<"x">>)>>, {"getsize"}),
     File("src", "blob", ".xyz", <<Ln(<<"x", "NUL">>)>>, {}),
     File("src", "logo", ".PNG", <<Ln(<<"x">>)>>, {}),
     File("node_modules", "dep", ".js", <<Ln(<<"x">>)>>, {}),
     File("src", ".Rhistory", "", <<Ln(<<"x">>)>>, {})}

\* the listings of a directory: no file twice, at most MaxFiles files
Listings ==
    {w \in UNION {[1..n -> SampleFiles] : n \in 0..MaxFiles} :
        \A i, j \in 1..Len(w) : w[i] = w[j] => i = j}

ScanInit ==
    /\ walk \in Listings
    /\ pos = 1
    /\ results = << >>
    /\ folded = 0
    /\ lang_summary = << >>
    /\ sorted_langs = << >>
    /\ totals = ZeroStats
    /\ scan_pc = "walk"
    /\ EstIdle
    /\ MainIdle

ScanNext == VisitFile \/ FinishWalk \/ Aggregate \/ Summarize

\* scans of a directory of sample files
SpecScan == ScanInit /\ [][ScanNext]_vars

Alphabet == {" ", "#", "/", "*", "x"}

\* the newline-terminated lines of at most MaxLineLen characters over Alphabet
AllLines == {Ln(b) : b \in UNION {[1..n -> Alphabet] : n \in 0..MaxLineLen}}

\* the texts of at most two such lines
AllTexts == {<< >>} \cup {<<l>> : l \in AllLines} \cup (AllLines \X AllLines)

LinesInit ==
    /\ \E text \in AllTexts : \E ext \in {".r", ".js", ".css", ".txt"} :
          walk = <<File("src", "f", ext, text, {})>>
    /\ pos = 1
    /\ results = << >>
    /\ folded = 0
    /\ lang_summary = << >>
    /\ sorted_langs = << >>
    /\ totals = ZeroStats
    /\ scan_pc = "walk"
    /\ EstIdle
    /\ MainIdle

\* scans of one file, over every text within the bounds
SpecLines == LinesInit /\ [][ScanNext]_vars

-----------------------------------------------------------------------------
(* The output files.                                                       *)

\* the cells of a language row with the Bytes column (csv, html)
RowWithBytes(kv) ==
    <<kv[1], kv[2].Files, kv[2].Lines, kv[2].Blanks, kv[2].Comments, kv[2].Code,
      kv[2].Complexity, kv[2].Bytes>>

\* the cells of a language row of the text table
RowOfText(kv) ==
    <<kv[1], kv[2].Files, kv[2].Lines, kv[2].Blanks, kv[2].Comments, kv[2].Code,
      kv[2].Complexity>>

\* the language rows of write_csv, in the order written
CsvRows(summary) ==
    LET ordered == SortByCode(summary)
    IN  [i \in 1..Len(ordered) |-> RowWithBytes(ordered[i])]

\* the language rows of write_html, in the order written
HtmlRows(summary) ==
    LET ordered == SortByCode(summary)
    IN  [i \in 1..Len(ordered) |-> RowWithBytes(ordered[i])]

\* the language rows of write_txt, in the order written
TxtRows(summary) ==
    LET ordered == SortByCode(summary)
    IN  [i \in 1..Len(ordered) |-> RowOfText(ordered[i])]

\* the estimate lines every output file carries
EstimateLines(est) ==
    [realistic_cost_usd |-> est.realistic_cost_usd,
     final_schedule_months |-> est.final_schedule_months,
     final_people |-> est.final_people,
     original_effort |-> est.original_effort,
     average_monthly_cost |-> est.average_monthly_cost,
     confidence_interval |-> est.confidence_interval]

write_csv(summary, tot, est) ==
    <<[rows |-> CsvRows(summary),
       total |-> <<tot.Files, tot.Lines, tot.Blanks, tot.Comments, tot.Code,
                   tot.Complexity, tot.Bytes>>,
       estimate |-> EstimateLines(est)]>>

write_html(summary, tot, est) ==
    <<[rows |-> HtmlRows(summary),
       total |-> <<tot.Files, tot.Lines, tot.Code>>,
       estimate |-> EstimateLines(est)]>>

write_txt(summary, tot, est) ==
    <<[rows |-> TxtRows(summary),
       total |-> <<tot.Files, tot.Lines, tot.Blanks, tot.Comments, tot.Code,
                   tot.Complexity>>,
       estimate |-> EstimateLines(est)]>>

\* write_outputs: each file is a one-element sequence, << >> when not written
write_outputs(formats, summary, tot, est) ==
    [csv  |-> IF "csv" \in formats THEN write_csv(summary, tot, est) ELSE << >>,
     html |-> IF "html" \in formats THEN write_html(summary, tot, est) ELSE << >>,
     txt  |-> IF "txt" \in formats THEN write_txt(summary, tot, est) ELSE << >>]

-----------------------------------------------------------------------------
(* main: the command line.                                                 *)

\* the argparse defaults of the flags shared by both subcommands
DefaultFlags ==
    [complexity |-> "medium", team_exp |-> 4, reuse |-> 100, tools |-> 100,
     avg_wage |-> 105000, rely |-> 100, cplx |-> 100, ruse |-> 100, pcon |-> 100,
     apex |-> 100, maintenance_rate |-> 20, maintenance_years |-> 0]

\* the flag values tried on the command line
FlagSets ==
    {[DefaultFlags EXCEPT !.complexity = cx, !.team_exp = te, !.avg_wage = w,
                          !.reuse = r, !.maintenance_years = y] :
        cx \in {"low", "high"}, te \in {1, 5, 6}, w \in {0, 105000},
        r \in {70, 100}, y \in {0, 1}}

\* the files of the scanned repositories
MainFiles ==
    {f \in SampleFiles : f.stem \in {"app", "util", "ui", "page", "LICENSE", "gone"}}

MainListings ==
    {w \in UNION {[1..n -> MainFiles] : n \in 0..MaxFiles} :
        \A i, j \in 1..Len(w) : w[i] = w[j] => i = j}

AnalyzeCommands ==
    {[cmd |-> "analyze", path |-> w, flags |-> fl, out |-> o, formats |-> fm] :
        w \in MainListings,
        fl \in {DefaultFlags, [DefaultFlags EXCEPT !.team_exp = 6]},
        o \in BOOLEAN,
        fm \in {{"txt"}, {"csv", "html"}, {"csv", "html", "txt"}}}

EstimateCommands ==
    {[cmd |-> "estimate", lines |-> n, flags |-> fl] :
        n \in {-1} \cup SizeGrid, fl \in FlagSets}

CommandLines == AnalyzeCommands \cup EstimateCommands \cup {[cmd |-> ""]}

\* language_mix = {L: stats['Code'] for L, stats in lang_summary.items()}
LanguageMix(summary) ==
    [i \in 1..Len(summary) |-> <<summary[i][1], summary[i][2].Code>>]

\* total_code = sum(stats['Code'] for stats in lang_summary.values())
RECURSIVE TotalCode(_)
TotalCode(summary) ==
    IF summary = << >> THEN 0 ELSE Head(summary)[2].Code + TotalCode(Tail(summary))

\* MainArgs that also passes a max_team_size of 10
MainArgsWithTeamOfTen(code_lines, flags, language_mix) ==
    [Defaults EXCEPT
        !.code_lines = code_lines, !.complexity = flags.complexity,
        !.team_experience = flags.team_exp, !.reuse_factor = flags.reuse,
        !.tool_support = flags.tools, !.language_mix = language_mix,
        !.avg_wage = flags.avg_wage, !.rely = flags.rely, !.cplx = flags.cplx,
        !.ruse = flags.ruse, !.pcon = flags.pcon, !.apex = flags.apex,
        !.maintenance_rate = flags.maintenance_rate,
        !.maintenance_years = flags.maintenance_years,
        !.max_team_size = 10]

\* the arguments main passes to estimate_shiny_cost: max_team_size and
\* max_schedule_months are not among them and keep their defaults
MainArgs(code_lines, flags, language_mix) ==
    [Defaults EXCEPT
        !.code_lines = code_lines, !.complexity = flags.complexity,
        !.team_experience = flags.team_exp, !.reuse_factor = flags.reuse,
        !.tool_support = flags.tools, !.language_mix = language_mix,
        !.avg_wage = flags.avg_wage, !.rely = flags.rely, !.cplx = flags.cplx,
        !.ruse = flags.ruse, !.pcon = flags.pcon, !.apex = flags.apex,
        !.maintenance_rate = flags.maintenance_rate,
        !.maintenance_years = flags.maintenance_years]

-----------------------------------------------------------------------------
(* main: the steps.                                                        *)

\* args.cmd == 'analyze': analyze_repo(args.path) is called
CallAnalyze ==
    /\ main_pc = "parsed"
    /\ argv.cmd = "analyze"
    /\ walk' = argv.path
    /\ scan_pc' = "walk"
    /\ main_pc' = "analyze"
    /\ UNCHANGED <<pos, results, folded, lang_summary, sorted_langs, totals>>
    /\ UNCHANGED <<argv, written>>
    /\ UNCHANGED estVars

\* analyze_repo returned None: main does nothing more
AnalyzeNothing ==
    /\ main_pc = "analyze"
    /\ scan_pc = "none"
    /\ main_pc' = "done"
    /\ UNCHANGED <<argv, written>>
    /\ UNCHANGED estVars
    /\ UNCHANGED scanVars

\* analyze_repo returned the summary: the estimate is called on it
EstimateSummary ==
    /\ main_pc = "analyze"
    /\ scan_pc = "returned"
    /\ args' = MainArgs(TotalCode(lang_summary), argv.flags, LanguageMix(lang_summary))
    /\ pc' = "called"
    /\ main_pc' = "estimate"
    /\ UNCHANGED <<frame, result, error, prev>>
    /\ UNCHANGED <<argv, written>>
    /\ UNCHANGED scanVars

\* args.cmd == 'estimate': the estimate is called on --lines
EstimateLinesFlag ==
    /\ main_pc = "parsed"
    /\ argv.cmd = "estimate"
    /\ args' = MainArgs(argv.lines, argv.flags, NoMix)
    /\ pc' = "called"
    /\ main_pc' = "estimate"
    /\ UNCHANGED <<frame, result, error, prev>>
    /\ UNCHANGED <<argv, written>>
    /\ UNCHANGED scanVars

\* no subcommand: parser.print_help()
PrintHelp ==
    /\ main_pc = "parsed"
    /\ argv.cmd = ""
    /\ main_pc' = "done"
    /\ UNCHANGED <<argv, written>>
    /\ UNCHANGED estVars
    /\ UNCHANGED scanVars

\* an exception of analyze_repo or estimate_shiny_cost leaves main uncaught
Uncaught ==
    /\ \/ main_pc = "analyze" /\ scan_pc = "raised"
       \/ main_pc = "estimate" /\ pc = "raised"
    /\ main_pc' = "crashed"
    /\ UNCHANGED <<argv, written>>
    /\ UNCHANGED estVars
    /\ UNCHANGED scanVars

\* the estimate returned: it is printed and, for analyze --out, written
Report ==
    /\ main_pc = "estimate"
    /\ pc = "returned"
    /\ written' = IF argv.cmd = "analyze" /\ argv.out
                  THEN write_outputs(argv.formats, lang_summary, totals, result)
                  ELSE written
    /\ main_pc' = "done"
    /\ UNCHANGED argv
    /\ UNCHANGED estVars
    /\ UNCHANGED scanVars

main ==
    \/ CallAnalyze \/ AnalyzeNothing \/ EstimateSummary \/ EstimateLinesFlag
    \/ PrintHelp \/ Uncaught \/ Report

MainInit ==
    /\ argv \in CommandLines
    /\ main_pc = "parsed"
    /\ written = NoOutputs
    /\ EstIdle
    /\ walk = << >>
    /\ pos = 1
    /\ results = << >>
    /\ folded = 0
    /\ lang_summary = << >>
    /\ sorted_langs = << >>
    /\ totals = ZeroStats
    /\ scan_pc = "idle"

MainNext ==
    \/ CallAnalyze \/ VisitFile \/ FinishWalk \/ Aggregate \/ Summarize
    \/ AnalyzeNothing \/ EstimateSummary \/ EstimateLinesFlag
    \/ Raise \/ Return \/ PrintHelp \/ Uncaught \/ Report

\* runs of the command line
SpecMain == MainInit /\ [][MainNext]_vars

-----------------------------------------------------------------------------
(* Claims about estimate_shiny_cost.                                       *)

\* a parameter of the call lies outside the range the specification declares
OutOfDeclaredRange(a) ==
    \/ a.code_lines < 0
    \/ a.complexity \notin {"low", "medium", "high"}
    \/ a.team_experience < 1 \/ a.team_experience > 5
    \/ a.reuse_factor < 70 \/ a.reuse_factor > 130
    \/ a.tool_support < 80 \/ a.tool_support > 120
    \/ a.rely < 82 \/ a.rely > 126
    \/ a.cplx < 73 \/ a.cplx > 174
    \/ a.ruse < 95 \/ a.ruse > 124
    \/ a.pcon < 81 \/ a.pcon > 129
    \/ a.apex < 81 \/ a.apex > 122
    \/ a.avg_wage <= 0
    \/ a.max_team_size <= 0
    \/ a.max_schedule_months <= 0
    \/ a.maintenance_rate < 0 \/ a.maintenance_rate > 100
    \/ a.maintenance_years < 0

\* C1: whenever any estimation parameter is outside its declared range (or
\* code_lines is negative), the finished call has raised a validation error
\* and returned no result.
C1_OutOfRangeFails ==
    (pc # "called" /\ OutOfDeclaredRange(args)) =>
        (pc = "raised" /\ error # "" /\ result = NoResult)

\* C2: a team_experience above 5 or a reuse_factor above 1.3 makes the call
\* fail with a validation error; the value is not clamped and no estimate
\* record, partial or complete, exists for that call.
C2_AboveRangeRaises ==
    (pc # "called" /\ (args.team_experience > 5 \/ args.reuse_factor > 130)) =>
        /\ pc = "raised"
        /\ error \in {"team_experience must be between 1 and 5",
                      "reuse_factor must be between 0.7 and 1.3"}
        /\ result = NoResult
        /\ frame = NoFrame

\* reached: the call with reuse_factor = 2.0 has raised
C2_Witness ==
    /\ pc = "raised"
    /\ args.reuse_factor = 200
    /\ error = "reuse_factor must be between 0.7 and 1.3"
    /\ result = NoResult

\* C5: for every accepted input the final team size is the least of the
\* nominal people, max_team_size and 8, so the reported team size (in
\* hundredths) is never above 8.00.
C5_TeamSizeIsMinOfThree ==
    pc = "returned" =>
        LET fp == frame.final_people
            three == {frame.people, RatInt(args.max_team_size), RatInt(8)}
        IN  /\ fp \in three
            /\ \A x \in three : RatLE(fp, x)
            /\ result.final_people <= 800

\* reached: the nominal people and max_team_size both exceed 8, the team is 8
C5_Witness ==
    /\ pc = "returned"
    /\ args.max_team_size > 8
    /\ RatLT(RatInt(8), frame.people)
    /\ frame.final_people = RatInt(8)
    /\ result.final_people = 800

\* C6: when the natural schedule exceeds a positive max_schedule_months, the
\* premium multiplier follows the ratio natural schedule / max_schedule_months
\* with tiers inclusive at their lower bound: >= 4 gives 2.0, >= 3 gives 1.7,
\* >= 2 gives 1.4, below 2 gives 1.2.
C6_PremiumTiersInclusive ==
    (/\ pc = "returned"
     /\ args.max_schedule_months > 0
     /\ RatLT(RatInt(args.max_schedule_months), frame.natural_schedule)) =>
        LET n   == frame.natural_schedule[1]
            cap == args.max_schedule_months * frame.natural_schedule[2]
        IN  /\ frame.final_schedule = RatInt(args.max_schedule_months)
            /\ result.premium_multiplier =
                 IF n >= 4 * cap THEN 20
                 ELSE IF n >= 3 * cap THEN 17
                 ELSE IF n >= 2 * cap THEN 14
                 ELSE 12

\* reached: a compression ratio of exactly 4 priced at 2.0
C6_Witness ==
    /\ pc = "returned"
    /\ args.max_schedule_months > 0
    /\ frame.natural_schedule = RatInt(4 * args.max_schedule_months)
    /\ result.premium_multiplier = 20

C8_CostMonotoneInCodeLines ==
    (pc = "returned" /\ prev # NoPrev /\ args.language_mix = NoMix) =>
        /\ prev.code_lines < result.code_lines
        /\ prev.params = result.params
        /\ prev.realistic_cost_usd <= result.realistic_cost_usd

\* reached: the larger size moved from the coordination premium to a schedule
\* premium, and costs more
C8_Witness ==
    /\ pc = "returned"
    /\ prev # NoPrev
    /\ args.language_mix = NoMix
    /\ prev.coordination_premium = 11
    /\ result.premium_multiplier = 12
    /\ prev.realistic_cost_usd < result.realistic_cost_usd

\* realistic_cost * rate * 1.05^y, computed in one product
CompoundedMaintenance(realistic_cost, rate, y) ==
    Money(BigMulAll(realistic_cost.num, <<rate>> \o [i \in 1..y |-> 105]),
          realistic_cost.dens \o <<100>> \o [i \in 1..y |-> 100])

-----------------------------------------------------------------------------
(* Claims about analyze_repo.                                              *)

Max(a, b) == IF a >= b THEN a ELSE b

\* the sum of field k over the records of recs at the indices idx
RECURSIVE SumField(_, _, _)
SumField(recs, idx, k) ==
    IF idx = {} THEN 0
    ELSE LET n == CHOOSE m \in idx : TRUE
         IN  recs[n][k] + SumField(recs, idx \ {n}, k)

SumFields == {"Lines", "Blanks", "Comments", "Code", "Complexity", "Bytes"}

\* the file of the walk that a record was made from
FileOf(r) ==
    CHOOSE f \in {walk[n] : n \in 1..Len(walk)} : <<f.dir, f.stem, f.ext>> = r.File

\* C3: every file record has Code = max(0, Lines - Blanks - Comments), and
\* Code is never negative: its blank lines and its comment lines are
\* disjoint sets of lines of the file.
C3_CodeIsClampedDifference ==
    \A i \in 1..Len(results) :
        LET r == results[i]
            text == FileOf(r).text
            blanks   == {n \in 1..Len(text) : IsBlank(text[n])}
            comments == {n \in 1..Len(text) :
                            IsComment(text[n], COMMENT_PATTERNS(r.Language))}
        IN  /\ r.Code = Max(0, r.Lines - r.Blanks - r.Comments)
            /\ r.Code >= 0
            /\ r.Lines = Len(text)
            /\ r.Blanks = Cardinality(blanks)
            /\ r.Comments = Cardinality(comments)
            /\ blanks \cap comments = {}

\* a record of a file with a blank line and a comment line and nothing else
C3_Witness ==
    /\ scan_pc = "returned"
    /\ \E i \in 1..Len(results) :
          /\ results[i].Lines = 2
          /\ results[i].Blanks = 1
          /\ results[i].Comments = 1
          /\ results[i].Code = 0

\* C4: once the records are folded, each language's summary counts its
\* records and sums each of their fields, the summary has exactly the
\* languages of the records, and once the totals are computed every field
\* of the totals is the sum of that field over the language summaries.
C4_SummariesAndTotalsAreSums ==
    /\ scan_pc \in {"aggregate", "summarize", "returned"} =>
          /\ {lang_summary[i][1] : i \in 1..Len(lang_summary)}
                = {results[n].Language : n \in 1..folded}
          /\ \A i, j \in 1..Len(lang_summary) :
                lang_summary[i][1] = lang_summary[j][1] => i = j
          /\ \A i \in 1..Len(lang_summary) :
                LET members == {n \in 1..folded : results[n].Language = lang_summary[i][1]}
                    stats == lang_summary[i][2]
                IN  /\ stats.Files = Cardinality(members)
                    /\ \A k \in SumFields : stats[k] = SumField(results, members, k)
    /\ scan_pc \in {"summarize", "returned"} => folded = Len(results)
    /\ scan_pc = "returned" =>
          LET summaries == [i \in 1..Len(lang_summary) |-> lang_summary[i][2]]
          IN  \A k \in SumFields \cup {"Files"} :
                  totals[k] = SumField(summaries, 1..Len(summaries), k)

\* a returned scan of two languages, one of them with two files
C4_Witness ==
    /\ scan_pc = "returned"
    /\ Len(lang_summary) = 2
    /\ \E i \in 1..2 : lang_summary[i][2].Files = 2 /\ lang_summary[i][2].Bytes > 0
    /\ totals.Files = 3
    /\ totals.Code > 0

\* C10: a failure of a filesystem operation on one file never aborts the
\* scan: analyze_repo does not raise.
C10_BadFileNeverAborts == scan_pc # "raised"

-----------------------------------------------------------------------------
(* Claims about the report and the command line.                           *)

\* the position in the scan of the first record of a language
FirstSeen(language) ==
    CHOOSE n \in 1..Len(results) :
        /\ results[n].Language = language
        /\ \A m \in 1..(n - 1) : results[m].Language # language

\* rows (language in cell 1, Code in cell 6) list every summarised language
\* once, by descending Code, equal Code by first encounter in the scan
InReportOrder(rows) ==
    /\ Len(rows) = Len(lang_summary)
    /\ \A k \in 1..Len(lang_summary) :
          \E i \in 1..Len(rows) :
              /\ rows[i][1] = lang_summary[k][1]
              /\ rows[i][6] = lang_summary[k][2].Code
    /\ \A i, j \in 1..Len(rows) :
          i < j =>
              \/ rows[i][6] > rows[j][6]
              \/ /\ rows[i][6] = rows[j][6]
                 /\ FirstSeen(rows[i][1]) < FirstSeen(rows[j][1])

\* C11: the language rows printed on the console and written to every
\* output file are ordered by descending Code, and languages with equal Code
\* are in the order in which they were first encountered during the scan.
C11_RowsByCodeThenFirstEncounter ==
    /\ scan_pc = "returned" =>
          InReportOrder([i \in 1..Len(sorted_langs) |-> RowOfText(sorted_langs[i])])
    /\ \A fmt \in {"csv", "html", "txt"} :
          written[fmt] # << >> => InReportOrder(written[fmt][1].rows)

\* reached: csv and txt files whose first row is the language met last and
\* whose next two rows tie on Code and keep their order of encounter
C11_Witness ==
    /\ main_pc = "done"
    /\ written.csv # << >>
    /\ written.txt # << >>
    /\ LET rows == written.csv[1].rows
       IN  /\ Len(rows) = 3
           /\ rows[1][6] > rows[2][6]
           /\ rows[2][6] = rows[3][6]
           /\ FirstSeen(rows[1][1]) = 3
           /\ FirstSeen(rows[2][1]) = 1
           /\ FirstSeen(rows[3][1]) = 2

\* C12: no quotient of estimate_shiny_cost has a zero denominator: when the
\* schedule, the team size or the capped schedule is not positive the
\* fallback is used (people = effort, natural schedule = effort, compression
\* ratio = natural schedule, average monthly cost = 0); and for code_lines = 0
\* without a language mix the effort, the realistic cost and the average
\* monthly cost are all 0.
C12_ZeroDenominatorsFallBack ==
    pc = "returned" =>
        LET effort == Rat(frame.effort, 100)
        IN  /\ frame.people[2] > 0
            /\ frame.natural_schedule[2] > 0
            /\ frame.compression_ratio[2] > 0
            /\ frame.schedule <= 0 => frame.people = effort
            /\ ~RatPos(frame.final_people) => frame.natural_schedule = effort
            /\ ~RatPos(frame.final_schedule) =>
                  /\ frame.compression_ratio = frame.natural_schedule
                  /\ result.average_monthly_cost = 0
            /\ (args.code_lines = 0 /\ args.language_mix = NoMix) =>
                  /\ result.effort_person_months = 0
                  /\ result.realistic_cost_usd = 0
                  /\ result.average_monthly_cost = 0

\* reached: the call with code_lines = 0 has returned the zero-cost result,
\* schedule and team size being zero
C12_Witness ==
    /\ pc = "returned"
    /\ args.code_lines = 0
    /\ args.language_mix = NoMix
    /\ frame.schedule = 0
    /\ frame.final_people = RatInt(0)
    /\ frame.final_schedule = RatInt(0)
    /\ result.realistic_cost_usd = 0
    /\ result.average_monthly_cost = 0

\* C13: in every estimate result the final schedule is the smaller of the
\* natural schedule (effort / final team, when the team is positive) and
\* max_schedule_months, and exactly one pricing branch applies: the schedule
\* premium is above 1.0 iff the natural schedule exceeds max_schedule_months;
\* otherwise the coordination premium is 1.1 for a final team of at least 6
\* and 1.0 below; the two premiums are never both above 1.0; the realistic
\* cost is effort x avg_wage / 12 x the multiplier of the branch taken.
C13_OnePricingBranch ==
    pc = "returned" =>
        LET cap        == RatInt(args.max_schedule_months)
            natural    == frame.natural_schedule
            exceeds    == RatLT(cap, natural)
            multiplier == IF exceeds THEN result.premium_multiplier
                          ELSE result.coordination_premium
        IN  /\ RatPos(frame.final_people) =>
                  natural[1] * frame.final_people[1] * 100
                      = frame.effort * natural[2] * frame.final_people[2]
            /\ frame.final_schedule = (IF exceeds THEN cap ELSE natural)
            /\ (result.premium_multiplier > 10) <=> exceeds
            /\ ~exceeds =>
                  result.coordination_premium =
                      IF RatLE(RatInt(6), frame.final_people) THEN 11 ELSE 10
            /\ ~(result.premium_multiplier > 10 /\ result.coordination_premium > 10)
            /\ MoneyNearest(result.realistic_cost_usd,
                            Money(BigMulAll(BigFromNat(result.original_effort),
                                            <<args.avg_wage, multiplier>>),
                                  <<100, 12, 10>>))

\* reached: a team of exactly 6 within the schedule cap, priced with the
\* coordination premium 1.1 and no schedule premium
C13_Witness ==
    /\ pc = "returned"
    /\ frame.final_people = RatInt(6)
    /\ ~RatLT(RatInt(args.max_schedule_months), frame.natural_schedule)
    /\ result.coordination_premium = 11
    /\ result.premium_multiplier = 10
    /\ result.realistic_cost_usd > 0

\* C14: is_binary_file reports binary for a file whose probe cannot open or
\* read it, so every such file the scan has visited was skipped by the binary
\* pre-filter.
C14_UnreadableIsBinary ==
    \A i \in 1..Len(walk) :
        (i < pos /\ "probe" \in walk[i].faults) => is_binary_file(walk[i])

\* C15: every call of estimate_shiny_cost made by main, through analyze or
\* estimate, has max_team_size 5 and max_schedule_months 24 whatever the
\* flags; so every estimate it produces has a final team of at most 5 and a
\* coordination premium of 1.0.
C15_CommandLineKeepsDefaultCaps ==
    main_pc \in {"estimate", "done", "crashed"} /\ pc # "idle" =>
        /\ args.max_team_size = 5
        /\ args.max_schedule_months = 24
        /\ pc = "returned" =>
              /\ RatLE(frame.final_people, RatInt(5))
              /\ result.final_people <= 500
              /\ result.coordination_premium = 10
              /\ result.params.max_team_size = 5
              /\ result.params.max_schedule_months = 24

\* reached: an estimate of the command line whose nominal team is 6 or more,
\* cut to 5 and priced without the coordination premium
C15_Witness ==
    /\ main_pc = "done"
    /\ pc = "returned"
    /\ RatLE(RatInt(6), frame.people)
    /\ frame.final_people = RatInt(5)
    /\ result.coordination_premium = 10


=============================================================================
